---- MODULE Spec2Model ----
(***************************************************************************)
(* Model of examples/vulnerable_code.c: main reads one line with fgets     *)
(* into a 256-byte buffer and hands it to copy_user_input, which copies it *)
(* with strcpy into a 64-byte stack buffer and prints it.                  *)
(*                                                                         *)
(* Buffers are functions over 0-based indices, as in the C source.  The    *)
(* memory that follows the 64-byte destination on the stack is modelled by *)
(* `adjacent`; the memory that follows an over-read source object is       *)
(* unknown and is chosen nondeterministically.  Each library call is one   *)
(* atomic step of the single-threaded program.  Two entry points are       *)
(* modelled: a run of main, and a direct call of copy_user_input with a    *)
(* null-terminated argument.                                               *)
(***************************************************************************)
EXTENDS Integers, Sequences, FiniteSets

VARIABLES mode, pc, stdin, stdinPos, stdinErr, input, inputWritten,
          user_input, buffer, adjacent, destWritten, overread,
          stdout, events, exitStatus

vars == <<mode, pc, stdin, stdinPos, stdinErr, input, inputWritten,
          user_input, buffer, adjacent, destWritten, overread,
          stdout, events, exitStatus>>

----------------------------------------------------------------------------
(* Bounds of the exploration *)
MaxStdinLen == 258
MaxDirectLen == 70
MaxOverread == 2

(* Program constants *)
BufSize == 64
InputSize == 256
NUL == 0
NL == 10

(* a non-zero byte standing for indeterminate memory *)
Junk == 63

PromptStr == <<69, 110, 116, 101, 114, 32, 100, 97, 116, 97, 58, 32>>
CopiedStr == <<67, 111, 112, 105, 101, 100, 58, 32>>

(* variant: the size passed to fgets is one more than the array holds *)
FgetsSizeOff == InputSize + 1

FgetsSize == InputSize

----------------------------------------------------------------------------
(* Inputs *)

Payload(i) == 97 + (i % 2)

StdinShapes == {"eof", "line", "midnl", "nulmid", "nulfirst", "err"}

StdinOf(len, shape) ==
  [i \in 1..len |->
     IF shape \in {"line", "nulmid", "nulfirst"} /\ i = len THEN NL
     ELSE IF shape = "midnl" /\ i = (len + 1) \div 2 THEN NL
     ELSE IF shape = "nulmid" /\ i = (len + 1) \div 2 THEN NUL
     ELSE IF shape = "nulfirst" /\ i = 1 THEN NUL
     ELSE Payload(i)]

(* indeterminate content of an automatic array of n bytes: no zero byte at *)
(* all (z = -1), or a zero byte at index z                                 *)
GarbageZeros == {-1, 0, 3, 100}
Garbage(n, z) == [i \in 0..(n - 1) |-> IF i = z THEN NUL ELSE Junk]
GarbageInputs == {Garbage(InputSize, z) : z \in GarbageZeros}
GarbageBuffers == {[i \in 0..(BufSize - 1) |-> b] : b \in {NUL, Junk}}

DirectTails == {<<>>, <<98, 97, 0>>}
DirectArg(n, tail) ==
  [i \in 0..(n + Len(tail)) |->
     IF i < n THEN Payload(i + 1) ELSE IF i = n THEN NUL ELSE tail[i - n]]

----------------------------------------------------------------------------
(* Library functions, computed as the C library computes them *)

Min(S) == CHOOSE x \in S : \A y \in S : x <= y

(* variant: a read that stops before the newline and does not store it *)
FgetsScanStrip(s, pos, n) ==
  LET avail == Len(s) - pos
      lim == IF n - 1 < avail THEN n - 1 ELSE avail
      nls == {c \in 1..lim : s[pos + c] = NL}
  IN IF nls = {} THEN lim ELSE Min(nls) - 1

(* fgets: number of bytes stored before the terminator, reading from       *)
(* position pos of stream s into an array of which n bytes may be used:    *)
(* it stops after n - 1 bytes, after a newline, or when the data runs out  *)
FgetsScan(s, pos, n) ==
  LET avail == Len(s) - pos
      lim == IF n - 1 < avail THEN n - 1 ELSE avail
      nls == {c \in 1..lim : s[pos + c] = NL}
  IN IF nls = {} THEN lim ELSE Min(nls)

(* variant: a copy that runs to the last zero byte of the object *)
SrcScanLast(src) ==
  LET zeros == {i \in DOMAIN src : src[i] = NUL}
  IN IF zeros = {} THEN Cardinality(DOMAIN src)
     ELSE CHOOSE x \in zeros : \A y \in zeros : y <= x

(* strcpy: index of the first zero byte of src, or the size of the object  *)
(* when the scan runs off its end                                          *)
SrcScan(src) ==
  LET zeros == {i \in DOMAIN src : src[i] = NUL}
  IN IF zeros = {} THEN Cardinality(DOMAIN src) ELSE Min(zeros)

(* variant: a copy bounded by the capacity of the destination *)
StrcpyBytesBounded(src, k) ==
  LET m == IF k < BufSize - 1 THEN k ELSE BufSize - 1
  IN [i \in 0..m |-> IF i = m THEN NUL ELSE src[i]]

StrcpyBytes(src, k) == [i \in 0..k |-> src[i]]

DestMem(i) == IF i < BufSize THEN buffer[i] ELSE adjacent[i]

(* variant: a print with a precision that drops the last byte of a full   *)
(* buffer                                                                  *)
ReadStrTrunc ==
  LET zeros == {i \in 0..(BufSize - 1) : buffer[i] = NUL}
      n == IF zeros = {} THEN BufSize ELSE Min(zeros)
      m == IF n < BufSize - 2 THEN n ELSE BufSize - 2
  IN [i \in 1..m |-> buffer[i - 1]]

(* printf %s: the bytes of the destination up to its first zero byte; a    *)
(* read that leaves the memory written so far yields indeterminate bytes   *)
ReadStr ==
  LET mem == (0..(BufSize - 1)) \cup DOMAIN adjacent
      zeros == {i \in mem : DestMem(i) = NUL}
  IN IF zeros = {} THEN [i \in 1..Cardinality(mem) |-> DestMem(i - 1)] \o <<Junk>>
     ELSE [i \in 1..Min(zeros) |-> DestMem(i - 1)]

Overflow == \E i \in destWritten : i >= BufSize

----------------------------------------------------------------------------
Init ==
  /\ mode \in {"main", "direct"}
  /\ buffer \in GarbageBuffers
  /\ adjacent = [i \in {} |-> NUL]
  /\ destWritten = {}
  /\ overread = FALSE
  /\ stdout = <<>>
  /\ events = <<>>
  /\ exitStatus = -1
  /\ stdinPos = 0
  /\ inputWritten = {}
  /\ IF mode = "main"
     THEN /\ pc = "start"
          /\ \E len \in 0..MaxStdinLen, shape \in StdinShapes :
               /\ shape \in {"line"} => len >= 1
               /\ shape \in {"midnl", "nulmid", "nulfirst"} => len >= 2
               /\ stdin = StdinOf(len, shape)
               /\ stdinErr = (shape = "err")
          /\ input \in GarbageInputs
          /\ user_input = [i \in {} |-> NUL]
     ELSE /\ pc = "harness"
          /\ stdin = <<>>
          /\ stdinErr = FALSE
          /\ input = Garbage(InputSize, -1)
          /\ \E n \in 0..MaxDirectLen, tail \in DirectTails :
               user_input = DirectArg(n, tail)

(* main, line 21: printf("Enter data: ") *)
Prompt ==
  /\ pc = "start"
  /\ stdout' = stdout \o PromptStr
  /\ events' = Append(events, "prompt")
  /\ pc' = "prompted"
  /\ UNCHANGED <<mode, stdin, stdinPos, stdinErr, input, inputWritten,
                 user_input, buffer, adjacent, destWritten, overread, exitStatus>>

(* main, line 22: fgets(input, sizeof(input), stdin); the result is not    *)
(* looked at                                                               *)
Fgets ==
  /\ pc = "prompted"
  /\ \E cnt \in {FgetsScan(stdin, stdinPos, FgetsSize)} :
     LET ranOut == /\ cnt < FgetsSize - 1
                   /\ (cnt = 0 \/ stdin[stdinPos + cnt] # NL)
     IN /\ stdinPos' = stdinPos + cnt
        /\ IF stdinErr /\ ranOut
           THEN (* read error: NULL, array contents indeterminate *)
                /\ input' \in GarbageInputs
                /\ inputWritten' = 0..(cnt - 1)
           ELSE IF cnt = 0
           THEN (* end of file, nothing read: NULL, array unchanged *)
                /\ UNCHANGED <<input, inputWritten>>
           ELSE /\ input' = [i \in 0..(InputSize - 1) |->
                               IF i < cnt THEN stdin[stdinPos + i + 1]
                               ELSE IF i = cnt THEN NUL ELSE input[i]]
                /\ inputWritten' = 0..cnt
  /\ events' = Append(events, "read")
  /\ pc' = "read"
  /\ UNCHANGED <<mode, stdin, stdinErr, user_input, buffer, adjacent,
                 destWritten, overread, stdout, exitStatus>>

(* variant: main looks at what the read stored and skips the call when it  *)
(* stored nothing                                                          *)
MainCallChecked ==
  /\ pc = "read"
  /\ IF inputWritten = {}
     THEN /\ pc' = "returned"
          /\ UNCHANGED <<user_input, events>>
     ELSE /\ user_input' = input
          /\ events' = Append(events, "call")
          /\ pc' = "called"
  /\ UNCHANGED <<mode, stdin, stdinPos, stdinErr, input, inputWritten,
                 buffer, adjacent, destWritten, overread, stdout, exitStatus>>

(* main, line 24: copy_user_input(input) *)
MainCall ==
  /\ pc = "read"
  /\ user_input' = input
  /\ events' = Append(events, "call")
  /\ pc' = "called"
  /\ UNCHANGED <<mode, stdin, stdinPos, stdinErr, input, inputWritten,
                 buffer, adjacent, destWritten, overread, stdout, exitStatus>>

(* a direct call copy_user_input(s) with a null-terminated s *)
HarnessCall ==
  /\ pc = "harness"
  /\ events' = Append(events, "call")
  /\ pc' = "called"
  /\ UNCHANGED <<mode, stdin, stdinPos, stdinErr, input, inputWritten, user_input,
                 buffer, adjacent, destWritten, overread, stdout, exitStatus>>

WriteDest(bytes) ==
  /\ buffer' = [i \in 0..(BufSize - 1) |->
                  IF i \in DOMAIN bytes THEN bytes[i] ELSE buffer[i]]
  /\ adjacent' = [i \in {j \in DOMAIN bytes : j >= BufSize} |-> bytes[i]]
  /\ destWritten' = DOMAIN bytes

(* copy_user_input, line 13: strcpy(buffer, user_input) *)
Strcpy ==
  /\ pc = "called"
  /\ \E k \in {SrcScan(user_input)} :
       IF k \in DOMAIN user_input
       THEN /\ WriteDest(StrcpyBytes(user_input, k))
            /\ pc' = "copied"
            /\ UNCHANGED overread
       ELSE (* no zero byte inside the source object: the scan goes on in  *)
            (* whatever memory follows it, until a zero byte or a fault    *)
            \E extra \in 0..MaxOverread, fault \in BOOLEAN :
              /\ overread' = TRUE
              /\ WriteDest([i \in 0..(k + extra - (IF fault THEN 1 ELSE 0)) |->
                              IF i < k THEN user_input[i]
                              ELSE IF i < k + extra THEN Junk ELSE NUL])
              /\ pc' = IF fault THEN "crashed" ELSE "copied"
  /\ UNCHANGED <<mode, stdin, stdinPos, stdinErr, input, inputWritten,
                 user_input, stdout, events, exitStatus>>

(* copy_user_input, line 15: printf("Copied: %s\n", buffer) *)
Printf ==
  /\ pc = "copied"
  /\ stdout' = stdout \o CopiedStr \o ReadStr \o <<NL>>
  /\ events' = Append(events, "print")
  /\ pc' = "printed"
  /\ UNCHANGED <<mode, stdin, stdinPos, stdinErr, input, inputWritten,
                 user_input, buffer, adjacent, destWritten, overread, exitStatus>>

(* copy_user_input, line 16: return to the caller *)
CopyReturn ==
  /\ pc = "printed"
  /\ pc' = "returned"
  /\ UNCHANGED <<mode, stdin, stdinPos, stdinErr, input, inputWritten, user_input,
                 buffer, adjacent, destWritten, overread, stdout, events, exitStatus>>

(* variant: main reports a failure status when the copy overflowed *)
MainReturnChecked ==
  /\ pc = "returned"
  /\ mode = "main"
  /\ exitStatus' = IF Overflow THEN 1 ELSE 0
  /\ events' = Append(events, "return")
  /\ pc' = "done"
  /\ UNCHANGED <<mode, stdin, stdinPos, stdinErr, input, inputWritten, user_input,
                 buffer, adjacent, destWritten, overread, stdout>>

(* main, line 26: return 0 *)
MainReturn ==
  /\ pc = "returned"
  /\ mode = "main"
  /\ exitStatus' = 0
  /\ events' = Append(events, "return")
  /\ pc' = "done"
  /\ UNCHANGED <<mode, stdin, stdinPos, stdinErr, input, inputWritten, user_input,
                 buffer, adjacent, destWritten, overread, stdout>>

(* Once the copy has written past the 64 bytes of buffer the stack frame   *)
(* is corrupt: the return from copy_user_input, or the code that runs      *)
(* after it, may fault instead of going on.                                *)
Crash ==
  /\ pc \in {"printed", "returned"}
  /\ Overflow
  /\ pc' = "crashed"
  /\ UNCHANGED <<mode, stdin, stdinPos, stdinErr, input, inputWritten, user_input,
                 buffer, adjacent, destWritten, overread, stdout, events, exitStatus>>

Next ==
  \/ Prompt
  \/ Fgets
  \/ MainCall
  \/ HarnessCall
  \/ Strcpy
  \/ Printf
  \/ CopyReturn
  \/ MainReturn
  \/ Crash

Spec == Init /\ [][Next]_vars

TypeOK ==
  /\ pc \in {"start", "harness", "prompted", "read", "called", "copied",
             "printed", "returned", "done", "crashed"}
  /\ DOMAIN input = 0..(InputSize - 1)
  /\ DOMAIN buffer = 0..(BufSize - 1)

----------------------------------------------------------------------------
(* Vocabulary of the properties *)

HasTerminator(src) == \E i \in DOMAIN src : src[i] = NUL

(* the C string length of src: the index n of a zero byte with no zero     *)
(* byte before it                                                          *)
StrLen(src) ==
  CHOOSE n \in DOMAIN src : src[n] = NUL /\ \A j \in 0..(n - 1) : src[j] # NUL

Happened(e) == \E i \in DOMAIN events : events[i] = e

CopyDone == pc \in {"copied", "printed", "returned", "done", "crashed"}

PriorOutput == IF mode = "main" THEN PromptStr ELSE <<>>

SrcPrefix(n) == [i \in 1..n |-> user_input[i - 1]]

MainEvents == <<"prompt", "read", "call", "print", "return">>

IsPrefix(s, t) == Len(s) <= Len(t) /\ \A i \in 1..Len(s) : s[i] = t[i]

(* the first line of stdin: p payload bytes followed by a newline *)
FirstLine(p) ==
  /\ p + 1 <= Len(stdin)
  /\ stdin[p + 1] = NL
  /\ \A j \in 1..p : stdin[j] # NL

----------------------------------------------------------------------------
(* C1: a terminated input of length n makes the copy write n + 1 bytes;    *)
(* some byte lands at a destination index above 63 when n >= 64, and every *)
(* byte lands inside indices 0..63 when n < 64.                            *)
C1_OverflowThreshold ==
  (CopyDone /\ HasTerminator(user_input)) =>
    \E n \in {StrLen(user_input)} :
      /\ Cardinality(destWritten) = n + 1
      /\ n >= BufSize => \E i \in destWritten : i > BufSize - 1
      /\ n < BufSize => destWritten \subseteq 0..(BufSize - 1)

C1_Witness ==
  /\ mode = "direct"
  /\ pc = "copied"
  /\ HasTerminator(user_input)
  /\ StrLen(user_input) = BufSize
  /\ BufSize \in destWritten

(* C2: for a terminated input of length n < 64 the copy stores the n bytes *)
(* and the terminator at destination indices 0..n, all inside the buffer,  *)
(* and the text printed is "Copied: ", the n bytes, one newline; with      *)
(* n = 63 the terminator sits at index 63.                                 *)
C2_SafeCopy ==
  (CopyDone /\ HasTerminator(user_input)) =>
    \E n \in {StrLen(user_input)} :
      n < BufSize =>
        /\ destWritten = 0..n
        /\ destWritten \subseteq 0..(BufSize - 1)
        /\ \A i \in 0..(n - 1) : buffer[i] = user_input[i]
        /\ buffer[n] = NUL
        /\ ~Overflow
        /\ Happened("print") =>
             stdout = PriorOutput \o CopiedStr \o SrcPrefix(n) \o <<NL>>

C2_Witness ==
  /\ pc = "printed"
  /\ HasTerminator(user_input)
  /\ StrLen(user_input) = BufSize - 1
  /\ buffer[BufSize - 1] = NUL
  /\ stdout = PriorOutput \o CopiedStr \o SrcPrefix(BufSize - 1) \o <<NL>>

(* C3: when the source holds a zero byte at position k followed by further *)
(* bytes, the copy step writes exactly bytes 0..k-1 and one terminator and *)
(* leaves the rest of the destination as it was, and the print step sends  *)
(* "Copied: ", bytes 0..k-1 and a newline; nothing after position k gets   *)
(* into the destination or the output.                                     *)
C3_Step ==
  (HasTerminator(user_input) /\ pc \in {"called", "copied"}) =>
    \E k \in {StrLen(user_input)} :
      (k + 1 \in DOMAIN user_input) =>
        /\ (pc = "called" /\ pc' # "called") =>
             /\ pc' = "copied"
             /\ destWritten' = 0..k
             /\ DOMAIN adjacent' = BufSize..k
             /\ \A i \in 0..k :
                  (IF i < BufSize THEN buffer'[i] ELSE adjacent'[i]) = user_input[i]
             /\ \A i \in (k + 1)..(BufSize - 1) : buffer'[i] = buffer[i]
        /\ (pc = "copied" /\ pc' # "copied") =>
             stdout' = stdout \o CopiedStr \o SrcPrefix(k) \o <<NL>>

C3_EmbeddedNul == [][C3_Step]_vars

C3_Witness ==
  /\ pc = "printed"
  /\ HasTerminator(user_input)
  /\ StrLen(user_input) + 1 \in DOMAIN user_input
  /\ StrLen(user_input) > 1
  /\ user_input[StrLen(user_input) + 1] # NUL
  /\ destWritten = 0..StrLen(user_input)

(* C4: empty input, given directly or as an empty standard input of main,  *)
(* makes the copy write one byte, the terminator at index 0, and the       *)
(* output of copy_user_input is "Copied: " and a newline.                  *)
C4_EmptyInput ==
  (/\ CopyDone
   /\ \/ mode = "direct" /\ user_input[0] = NUL
      \/ mode = "main" /\ stdin = <<>>) =>
    /\ destWritten = {0}
    /\ buffer[0] = NUL
    /\ Happened("print") => stdout = PriorOutput \o CopiedStr \o <<NL>>

(* C5: the read of main stores at most 255 payload bytes and a terminator, *)
(* never outside indices 0..255 of input; of a line longer than 255 bytes  *)
(* the first 255 are stored and the rest stays unread.                     *)
C5_BoundedRead ==
  /\ inputWritten \subseteq 0..(InputSize - 1)
  /\ stdinPos <= InputSize - 1
  /\ (/\ Happened("read")
      /\ Len(stdin) > InputSize - 1
      /\ \A j \in 1..(InputSize - 1) : stdin[j] # NL) =>
       /\ stdinPos = InputSize - 1
       /\ inputWritten = 0..(InputSize - 1)
       /\ \A i \in 0..(InputSize - 2) : input[i] = stdin[i + 1]
       /\ input[InputSize - 1] = NUL

C5_Witness ==
  /\ pc = "read"
  /\ Len(stdin) = InputSize + 2
  /\ \A j \in 1..Len(stdin) : stdin[j] # NL
  /\ stdinPos = InputSize - 1
  /\ input[InputSize - 1] = NUL

(* C6: nothing signals an error: the copy step always writes, whatever the *)
(* length; the step after the copy is always the print of the "Copied: "   *)
(* line; and main's return always yields status 0, overflow or not.        *)
C6_Step ==
  /\ (pc = "called" /\ pc' # "called") => destWritten' # {}
  /\ (pc = "copied" /\ pc' # "copied") =>
       /\ pc' = "printed"
       /\ Len(stdout') >= Len(stdout) + Len(CopiedStr) + 1
       /\ SubSeq(stdout', Len(stdout) + 1, Len(stdout) + Len(CopiedStr)) = CopiedStr
  /\ pc' = "done" => exitStatus' = 0

C6_NoErrorSignal == [][C6_Step]_vars

C6_Witness ==
  /\ pc = "done"
  /\ Overflow
  /\ exitStatus = 0
  /\ Happened("print")

(* C7 as stated: every run of main performs prompt, read, call, print and  *)
(* return, in this order, each exactly once.                               *)
C7_Original ==
  (mode = "main" /\ pc \in {"done", "crashed"}) => events = MainEvents

(* C7 as amended: the events of a run of main are a prefix of prompt,      *)
(* read, call, print, return (fixed order, each at most once); the call    *)
(* follows the read whatever the read did and passes the buffer as read;   *)
(* a run that ends without all five has crashed, after the call, and only  *)
(* after the copy wrote past the destination or read past the source.      *)
C7_Amended ==
  mode = "main" =>
    /\ IsPrefix(events, MainEvents)
    /\ pc = "read" => events = <<"prompt", "read">>
    /\ pc = "called" => events = <<"prompt", "read", "call">>
    /\ Happened("call") => user_input = input
    /\ pc = "done" => events = MainEvents
    /\ pc = "crashed" => Happened("call") /\ (Overflow \/ overread)
    /\ (~Overflow /\ ~overread /\ pc = "returned") => ENABLED MainReturn

C7_Witness ==
  /\ mode = "main"
  /\ pc = "done"
  /\ events = MainEvents
  /\ inputWritten = {}

(* C8 as stated: after the read of a newline-terminated line of p <= 254   *)
(* payload bytes, input holds the payload, the newline, the terminator;    *)
(* the copy sees length p + 1 and stays inside the destination exactly     *)
(* when p <= 62.                                                           *)
C8_Original ==
  \A p \in 0..(InputSize - 2) :
    (mode = "main" /\ Happened("read") /\ FirstLine(p)) =>
      /\ \A i \in 0..(p - 1) : input[i] = stdin[i + 1]
      /\ input[p] = NL
      /\ input[p + 1] = NUL
      /\ StrLen(input) = p + 1
      /\ CopyDone => (~Overflow <=> p <= BufSize - 2)

(* C8 as amended: the buffer holds payload, newline and terminator for     *)
(* every such line; when no payload byte is zero, the copy sees length     *)
(* p + 1 and stays inside the destination exactly when p <= 62.            *)
C8_Amended ==
  \A p \in 0..(InputSize - 2) :
    (mode = "main" /\ Happened("read") /\ FirstLine(p)) =>
      /\ \A i \in 0..(p - 1) : input[i] = stdin[i + 1]
      /\ input[p] = NL
      /\ input[p + 1] = NUL
      /\ (\A j \in 1..p : stdin[j] # NUL) =>
           /\ StrLen(input) = p + 1
           /\ Happened("call") => StrLen(user_input) = p + 1
           /\ CopyDone => (~Overflow <=> p <= BufSize - 2)
           /\ CopyDone => destWritten = 0..(p + 1)

C8_Witness ==
  /\ mode = "main"
  /\ pc = "copied"
  /\ FirstLine(BufSize - 1)
  /\ \A j \in 1..(BufSize - 1) : stdin[j] # NUL
  /\ input[BufSize - 1] = NL
  /\ Overflow

(* C9: the buffer main passes to copy_user_input holds a terminator that   *)
(* the read wrote, for every standard input.                               *)
C9_TerminatedByRead ==
  (mode = "main" /\ Happened("call")) =>
    \E i \in inputWritten : i \in DOMAIN input /\ input[i] = NUL

(* C10: in a run of main the copy writes at most 256 bytes, all of them at *)
(* destination indices 0..255.                                             *)
C10_AtMost256 ==
  mode = "main" =>
    /\ Cardinality(destWritten) <= InputSize
    /\ destWritten \subseteq 0..(InputSize - 1)
====
